---- MODULE Spec2Model ----
(***************************************************************************)
(* Dhan-Saathi backend: the token service (app/core/auth.py) and the       *)
(* account routes (app/routes/user_routes.py), as state machines.          *)
(*                                                                         *)
(* Time is counted in ticks of 1/TicksPerSec second, because               *)
(* datetime.utcnow() is finer than the whole seconds a JWT "exp" holds.    *)
(* Python's None is the integer None; an absent or empty (falsy) string    *)
(* is "".                                                                  *)
(***************************************************************************)
EXTENDS Integers, Sequences, FiniteSets, TLC

\* ------------------------------------------------------------- bounds
TicksPerSec == 2
MaxSkew == 2
MaxTtl == 3
MaxReqs == 2

\* -------------------------------------------------- program constants
None == -1
SECRET_KEY == "SECRET_KEY"
ALGORITHM == "HS256"
ACCESS_TOKEN_EXPIRE_MINUTES == 60

\* timedelta(minutes=m), in ticks
timedelta_minutes(m) == m * 60 * TicksPerSec

\* the clock values the model visits: a few ticks around the issuance
\* instant and around the default expiry
Hour == timedelta_minutes(ACCESS_TOKEN_EXPIRE_MINUTES)
Horizon == Hour + MaxSkew

\* ------------------------------------------------------ input domains
Usernames == {"alice", "bob"}
Emails == {"a@x.com", "b@x.com"}
Passwords == {"pw123", "hunter2"}
\* one salt value: two hashes of one password are then equal, which
\* nothing below depends on
Salts == {"s1"}
OtherKeys == {"attacker-key"}
OtherAlgs == {"HS384", "none", ""}
\* emails are unique, so the table never holds more rows than there are
\* emails; ids one past that name no row
MaxUsers == Cardinality(Emails)
UserIds == 1..(MaxUsers + 1)
TtlArgs == {None} \cup (0..MaxTtl)

VARIABLES users, now, bearer, resp, tok, origin, iat, ttl, sub, vres, vat, reqs

vars == <<users, now, bearer, resp, tok, origin, iat, ttl, sub, vres, vat, reqs>>
svcVars == <<users, bearer, resp>>
tokVars == <<tok, origin, iat, ttl, sub, vres, vat>>

\* =============================================================== tokens
\* A token string, by what a JWT parser sees in it: form "jws" is a
\* three-segment signed envelope, "garbage" anything else, "absent" no
\* token.  key is the secret the signature was made with, intact whether
\* the signature segment is as the signer wrote it.
Token(form, alg, key, intact, uid, exp) ==
    [form |-> form, alg |-> alg, key |-> key, intact |-> intact,
     user_id |-> uid, exp |-> exp]

NoToken == Token("absent", "", "", FALSE, None, None)
Garbage == Token("garbage", "", "", FALSE, None, None)

\* calendar.timegm(dt.utctimetuple()): a datetime cut to whole seconds
timegm(dt) == dt \div TicksPerSec

\* jose.jwt.encode: a datetime "exp" becomes whole seconds, the header
\* carries the algorithm, the signature is made with key
jwt_encode(claims, key, algorithm) ==
    Token("jws", algorithm, key, TRUE, claims.user_id,
          IF claims.exp = None THEN None ELSE timegm(claims.exp))

\* expires_delta or timedelta(minutes=ACCESS_TOKEN_EXPIRE_MINUTES):
\* None and timedelta(0) are both falsy
ExpiresDelta(expires_delta) ==
    IF expires_delta = None \/ expires_delta = 0
    THEN timedelta_minutes(ACCESS_TOKEN_EXPIRE_MINUTES)
    ELSE expires_delta

\* a slip: the claims of data are not copied into the payload
create_access_token_nodata(data, expires_delta, utcnow) ==
    jwt_encode([user_id |-> None,
                exp |-> utcnow + ExpiresDelta(expires_delta)],
               SECRET_KEY, ALGORITHM)

create_access_token(data, expires_delta, utcnow) ==
    jwt_encode([user_id |-> data.user_id,
                exp |-> utcnow + ExpiresDelta(expires_delta)],
               SECRET_KEY, ALGORITHM)

\* a slip: the header's algorithm is not checked against algorithms
jwt_decode_anyalg(token, key, algorithms, utcnow) ==
    IF token.form # "jws" THEN "JWTError"
    ELSE IF token.key # key \/ ~token.intact THEN "JWTError"
    ELSE IF token.exp # None /\ token.exp < timegm(utcnow)
         THEN "ExpiredSignatureError"
    ELSE ""

\* jose.jwt.decode(token, key, algorithms): "" when the token passes, else
\* the class of the error raised.  Order as in the library: envelope,
\* algorithm, signature, then the exp claim against the clock (a token is
\* expired when its exp is below the clock's whole seconds).
jwt_decode(token, key, algorithms, utcnow) ==
    IF token.form # "jws" THEN "JWTError"
    ELSE IF token.alg = "" \/ token.alg \notin algorithms THEN "JWTError"
    ELSE IF token.key # key \/ ~token.intact THEN "JWTError"
    ELSE IF token.exp # None /\ token.exp < timegm(utcnow)
         THEN "ExpiredSignatureError"
    ELSE ""

\* a slip: only the base class itself is caught
CaughtOnlyBase == {"JWTError"}

\* except JWTError: the classes the handler catches (subclasses included)
Caught == {"JWTError", "ExpiredSignatureError", "JWTClaimsError"}

\* verify_access_token: the subject, None, or a fault that leaves the
\* function
Result(raised, value) == [raised |-> raised, value |-> value]

verify_access_token(token, utcnow) ==
    LET err == jwt_decode(token, SECRET_KEY, {ALGORITHM}, utcnow)
    IN  IF err # ""
        THEN IF err \in Caught THEN Result(FALSE, None)
             ELSE Result(TRUE, None)
        ELSE IF token.user_id = None THEN Result(FALSE, None)
             ELSE Result(FALSE, token.user_id)

NotVerified == Result(FALSE, 0 - 2)

\* tokens made outside create_access_token: a string that is no JWT, an
\* envelope under another algorithm tag or none, under another key, with
\* the signature segment altered, or signed with the secret but without
\* user_id, or with an exp of second 0
CraftedTokens ==
    {Garbage}
    \cup {Token("jws", a, SECRET_KEY, TRUE, u, None) :
            a \in OtherAlgs, u \in {1}}
    \cup {Token("jws", ALGORITHM, k, TRUE, u, None) :
            k \in OtherKeys, u \in {1}}
    \cup {Token("jws", ALGORITHM, SECRET_KEY, FALSE, u, None) : u \in {1}}
    \cup {Token("jws", ALGORITHM, SECRET_KEY, TRUE, None, None)}
    \cup {Token("jws", ALGORITHM, SECRET_KEY, TRUE, u, 0) :
            u \in {1, MaxUsers + 1}}

\* ====================================================== credential hash
\* A stored hash string: ident is its scheme prefix, salt and digest what
\* follows it.  The digest of a password under a salt is the pair itself:
\* equal exactly when salt and password are equal.
Digest(salt, password) == <<salt, password>>

Hash(ident, salt, digest) == [ident |-> ident, salt |-> salt, digest |-> digest]

\* pwd_context.hash(password): bcrypt under a salt drawn per call
hash_password(password, salt) == Hash("$2b$", salt, Digest(salt, password))

\* what a hashed_password column can hold besides a bcrypt hash: another
\* scheme's text, a truncated bcrypt string, NULL
MalformedHashes ==
    {Hash("plain", "", Digest("", pw)) : pw \in Passwords}
    \cup {Hash("$2b$", "", Digest("", ""))}
NullHash == Hash("NULL", "", Digest("", ""))

\* CryptContext(schemes=["bcrypt"]).verify(secret, hash): "True", "False",
\* or the error raised.  None gives False; a string no configured scheme
\* identifies raises UnknownHashError, a bcrypt prefix with a bad body
\* ValueError.
pwd_verify(secret, hash) ==
    IF hash.ident = "NULL" THEN "False"
    ELSE IF hash.ident # "$2b$" THEN "UnknownHashError"
    ELSE IF hash.salt \notin Salts THEN "ValueError"
    ELSE IF hash.digest = Digest(hash.salt, secret) THEN "True"
    ELSE "False"

\* ========================================================== user store
\* The users table: row i has id i (ids are handed out in order and rows
\* are never deleted).
User(id, username, email, hashed_password) ==
    [id |-> id, username |-> username, email |-> email,
     hashed_password |-> hashed_password]

Ids(db) == DOMAIN db

\* db.query(User).filter(User.email == email).first(): the id or None
QueryByEmail(db, email) ==
    LET hit == {i \in Ids(db) : db[i].email = email}
    IN  IF hit = {} THEN None ELSE CHOOSE i \in hit : \A j \in hit : i <= j

\* db.query(User).filter(User.id == id).first(): the id or None
QueryById(db, id) == IF id \in Ids(db) THEN id ELSE None

\* what a response shows of a user
NoUser == [id |-> None, username |-> "", email |-> ""]
Summary(u) == [id |-> u.id, username |-> u.username, email |-> u.email]

\* ============================================================ handlers
\* A handler's outcome: the table after it, the HTTP status and detail,
\* the user the response shows, the token it returns.
Outcome(db, status, detail, body, token) ==
    [db |-> db, status |-> status, detail |-> detail, body |-> body,
     token |-> token]

\* register_user's lookup: a row with this email exists
EmailRegistered(db, email) == QueryByEmail(db, email) # None

\* update_my_profile's lookup: a row other than the caller's has it
EmailInUse(db, current_user, email) ==
    LET existing == QueryByEmail(db, email)
    IN  existing # None /\ existing # current_user

\* a slip: the lookup by email is skipped
register_user_nocheck(db, user, salt) ==
    LET new_user == User(Len(db) + 1, user.username, user.email,
                         hash_password(user.password, salt))
    IN  Outcome(Append(db, new_user), 200, "User registered successfully",
                [id |-> new_user.id, username |-> "", email |-> new_user.email],
                NoToken)

register_user(db, user, salt) ==
    IF EmailRegistered(db, user.email)
    THEN Outcome(db, 400, "Email already registered", NoUser, NoToken)
    ELSE LET new_user == User(Len(db) + 1, user.username, user.email,
                              hash_password(user.password, salt))
         IN  Outcome(Append(db, new_user), 200, "User registered successfully",
                     [id |-> new_user.id, username |-> "",
                      email |-> new_user.email],
                     NoToken)

\* a slip: the password is not checked when the email is found
login_user_nopw(db, form, utcnow) ==
    LET id == QueryByEmail(db, form.username)
    IN  IF id = None
        THEN Outcome(db, 400, "Invalid email or password", NoUser, NoToken)
        ELSE Outcome(db, 200, "", Summary(db[id]),
                     create_access_token([user_id |-> id], None, utcnow))

login_user(db, form, utcnow) ==
    LET id == QueryByEmail(db, form.username)
        ok == IF id = None THEN "False"
              ELSE pwd_verify(form.password, db[id].hashed_password)
    IN  IF id = None \/ ok = "False"
        THEN Outcome(db, 400, "Invalid email or password", NoUser, NoToken)
        ELSE IF ok # "True"
        THEN Outcome(db, 500, "Internal Server Error", NoUser, NoToken)
        ELSE Outcome(db, 200, "", Summary(db[id]),
                     create_access_token([user_id |-> id], None, utcnow))

\* get_current_user: [status, detail, id]; id is None unless status is 200
Current(status, detail, id) == [status |-> status, detail |-> detail, id |-> id]

\* a slip: the lookup has no filter on the id, so .first() is row 1
get_current_user_first(token, db, utcnow) ==
    LET r == verify_access_token(token, utcnow)
    IN  IF r.raised THEN Current(500, "Internal Server Error", None)
        ELSE IF r.value = None \/ r.value = 0
        THEN Current(401, "Invalid or expired token", None)
        ELSE IF QueryById(db, 1) = None
        THEN Current(404, "User not found", None)
        ELSE Current(200, "", 1)

get_current_user(token, db, utcnow) ==
    LET r == verify_access_token(token, utcnow)
    IN  IF r.raised THEN Current(500, "Internal Server Error", None)
        ELSE IF r.value = None \/ r.value = 0
        THEN Current(401, "Invalid or expired token", None)
        ELSE IF QueryById(db, r.value) = None
        THEN Current(404, "User not found", None)
        ELSE Current(200, "", r.value)

get_user_by_id(db, user_id) ==
    IF QueryById(db, user_id) = None
    THEN Outcome(db, 404, "User not found", NoUser, NoToken)
    ELSE Outcome(db, 200, "", Summary(db[user_id]), NoToken)

get_my_profile(db, current_user) ==
    Outcome(db, 200, "", Summary(db[current_user]), NoToken)

\* update_my_profile: current_user is changed in the session and written
\* by db.commit(); when the email is taken the HTTPException leaves the
\* handler before any commit and get_db closes the session, which drops
\* the pending change to the username.
NewUsername(cur, payload) ==
    IF payload.username # "" /\ payload.username # cur.username
    THEN payload.username ELSE cur.username

EmailSent(cur, payload) == payload.email # "" /\ payload.email # cur.email

\* a slip: the username is committed before the email is checked
update_my_profile_early(db, current_user, payload) ==
    LET cur == db[current_user]
        named == [cur EXCEPT !.username = NewUsername(cur, payload)]
    IN  IF EmailSent(cur, payload) /\ EmailInUse(db, cur.id, payload.email)
        THEN Outcome([db EXCEPT ![current_user] = named],
                     400, "Email already in use", NoUser, NoToken)
        ELSE LET new == IF EmailSent(cur, payload)
                        THEN [named EXCEPT !.email = payload.email]
                        ELSE named
             IN  Outcome([db EXCEPT ![current_user] = new],
                         200, "Profile updated", Summary(new), NoToken)

update_my_profile(db, current_user, payload) ==
    LET cur == db[current_user]
        named == [cur EXCEPT !.username = NewUsername(cur, payload)]
    IN  IF EmailSent(cur, payload) /\ EmailInUse(db, cur.id, payload.email)
        THEN Outcome(db, 400, "Email already in use", NoUser, NoToken)
        ELSE LET new == IF EmailSent(cur, payload)
                        THEN [named EXCEPT !.email = payload.email]
                        ELSE named
             IN  Outcome([db EXCEPT ![current_user] = new],
                         200, "Profile updated", Summary(new), NoToken)

\* The last request and its response: the operation, the instant, the
\* request's token, the user the request acted as, the form or payload
\* fields and path id its body read (blank when get_current_user ended
\* the request before the body), and the response.
Resp(op, at, token, username, email, password, target, actor, out) ==
    [op |-> op, at |-> at, token |-> token, username |-> username,
     email |-> email, password |-> password, target |-> target,
     actor |-> actor, status |-> out.status, detail |-> out.detail,
     body |-> out.body, issued |-> out.token]

NoResp ==
    Resp("none", 0, NoToken, "", "", "", None, None,
         Outcome(<< >>, 0, "", NoUser, NoToken))

Protected == {"get_all_users", "get_user_by_id", "get_my_profile",
              "update_my_profile"}

\* the response when get_current_user ended the request
Denied(db, cu) == Outcome(db, cu.status, cu.detail, NoUser, NoToken)

\* ------------------------------------------------------------- clock
\* time passes: one tick (within MaxSkew ticks of the start or of the
\* default expiry), or the whole default lifetime at once
Tick ==
    /\ \/ (now % Hour) < MaxSkew /\ now' = now + 1
       \/ now + Hour <= Horizon /\ now' = now + Hour
    /\ UNCHANGED <<svcVars, tokVars, reqs>>

\* the default token lifetime and one more second pass
Elapse ==
    /\ now + Hour + TicksPerSec <= Horizon
    /\ now' = now + Hour + TicksPerSec
    /\ UNCHANGED <<svcVars, tokVars, reqs>>

\* ======================================================= token service
\* the table is empty or holds one registered user
TokInit ==
    /\ users \in {<< >>,
                 <<User(1, "alice", "a@x.com", hash_password("pw123", "s1"))>>}
    /\ now = 0
    /\ bearer = NoToken
    /\ resp = NoResp
    /\ tok = NoToken
    /\ origin = "none"
    /\ iat = None
    /\ ttl = None
    /\ sub = None
    /\ vres = NotVerified
    /\ vat = None
    /\ reqs = << >>

\* create_access_token({"user_id": s}, t) at the current instant
Issue ==
    \E s \in UserIds, t \in TtlArgs :
        /\ tok' = create_access_token([user_id |-> s], t, now)
        /\ origin' = "issued"
        /\ iat' = now
        /\ ttl' = t
        /\ sub' = s
        /\ vres' = NotVerified
        /\ vat' = None
        /\ UNCHANGED <<svcVars, now, reqs>>

\* a token from elsewhere is presented
Craft ==
    \E t \in CraftedTokens :
        /\ tok' = t
        /\ origin' = "crafted"
        /\ iat' = None
        /\ ttl' = None
        /\ sub' = None
        /\ vres' = NotVerified
        /\ vat' = None
        /\ UNCHANGED <<svcVars, now, reqs>>

\* one byte of the held token's signature segment is flipped
FlipSignature ==
    /\ tok.form = "jws"
    /\ tok.intact
    /\ tok' = [tok EXCEPT !.intact = FALSE]
    /\ origin' = "tampered"
    /\ vres' = NotVerified
    /\ vat' = None
    /\ UNCHANGED <<svcVars, now, iat, ttl, sub, reqs>>

\* the token is sent as the bearer token of GET /me: get_current_user
\* calls verify_access_token on it (vres is what that call returned)
Present ==
    /\ tok.form # "absent"
    /\ vres' = verify_access_token(tok, now)
    /\ vat' = now
    /\ LET cu == get_current_user(tok, users, now)
           out == IF cu.id = None THEN Denied(users, cu)
                  ELSE get_my_profile(users, cu.id)
       IN  /\ users' = out.db
           /\ resp' = Resp("get_my_profile", now, tok, "", "", "", None,
                           cu.id, out)
    /\ UNCHANGED <<now, bearer, tok, origin, iat, ttl, sub, reqs>>

TokNext == Issue \/ Craft \/ FlipSignature \/ Present \/ Tick

TokenSpec == TokInit /\ [][TokNext]_vars

\* ------------------------------------------------ token service claims
\* a token is taken as expired at instant at, or fails a check of its
\* envelope, algorithm tag, signature or subject claim
Expired(t, at) == t.exp # None /\ t.exp < timegm(at)
TokenFails(t, at) ==
    \/ t.form # "jws"
    \/ t.alg # ALGORITHM
    \/ t.key # SECRET_KEY
    \/ ~t.intact
    \/ Expired(t, at)
    \/ t.user_id = None

\* C1: a token made by create_access_token({user_id: s}, t) and verified
\* at the instant of issuance yields s, for every subject s and every ttl
\* t (none given, zero, or positive).
C1_VerifyAtIssuance ==
    (origin = "issued" /\ vres # NotVerified /\ vat = iat)
        => vres = Result(FALSE, sub)

C1_Witness ==
    /\ origin = "issued"
    /\ vat = iat
    /\ ttl \in 1..MaxTtl
    /\ vres = Result(FALSE, sub)

\* C2: a token issued at T with ttl t >= 0 is invalid at every instant
\* later than T + t, a ttl of zero included.
C2_InvalidAfterTtl ==
    (origin = "issued" /\ ttl # None /\ vres # NotVerified /\ vat > iat + ttl)
        => vres = Result(FALSE, None)

\* C3: verify_access_token returns a subject s only for a token signed
\* with the secret under HS256, its signature unaltered, whose user_id is
\* s; without user_id, under another or no algorithm tag, or with an
\* altered signature the result is None.
C3_SubjectOnlyIfGenuine ==
    vres # NotVerified =>
        /\ vres.value # None =>
              /\ ~vres.raised
              /\ tok.form = "jws"
              /\ tok.alg = ALGORITHM
              /\ tok.key = SECRET_KEY
              /\ tok.intact
              /\ tok.user_id = vres.value
        /\ (tok.user_id = None \/ tok.alg # ALGORITHM \/ ~tok.intact)
              => vres = Result(FALSE, None)

C3_Witness ==
    /\ vres = Result(FALSE, None)
    /\ tok.form = "jws"
    /\ tok.alg = "HS384"
    /\ tok.key = SECRET_KEY
    /\ tok.intact
    /\ tok.user_id # None

\* C4: every verification failure (malformed, bad signature, wrong
\* algorithm, expired, no subject claim) ends in verify_access_token as
\* None, never as a raised fault, and get_current_user answers each of
\* them with 401 "Invalid or expired token".
C4_UniformInvalid ==
    /\ (vres # NotVerified /\ TokenFails(tok, vat))
          => vres = Result(FALSE, None)
    /\ (resp.op \in Protected /\ TokenFails(resp.token, resp.at))
          => /\ resp.status = 401
             /\ resp.detail = "Invalid or expired token"
             /\ resp.actor = None

C4_Witness ==
    /\ resp.op \in Protected
    /\ resp.status = 401
    /\ resp.token.form = "jws"
    /\ resp.token.alg = ALGORITHM
    /\ resp.token.key = SECRET_KEY
    /\ resp.token.intact
    /\ resp.token.user_id = 1
    /\ 1 \in Ids(users)
    /\ Expired(resp.token, resp.at)
    /\ origin = "issued"

\* ======================================================= account routes
\* the bearer tokens a client sends: the one its last login returned, that
\* token with its signature altered, a string that is no token, or a token
\* signed with the secret that names no subject or an id with no row
Presentable ==
    {Garbage,
     Token("jws", ALGORITHM, SECRET_KEY, TRUE, None, None),
     Token("jws", ALGORITHM, SECRET_KEY, TRUE, MaxUsers + 1, None)}
    \cup ({bearer, [bearer EXCEPT !.intact = FALSE]} \ {NoToken})

Init ==
    /\ users = << >>
    /\ now = 0
    /\ bearer = NoToken
    /\ resp = NoResp
    /\ tok = NoToken
    /\ origin = "none"
    /\ iat = None
    /\ ttl = None
    /\ sub = None
    /\ vres = NotVerified
    /\ vat = None
    /\ reqs = << >>

Register ==
    \E u \in Usernames, e \in Emails, p \in Passwords, salt \in Salts :
        LET out == register_user(users,
                       [username |-> u, email |-> e, password |-> p], salt)
        IN  /\ users' = out.db
            /\ resp' = Resp("register_user", now, NoToken, u, e, p, None,
                            None, out)
            /\ UNCHANGED <<now, bearer, tokVars, reqs>>

LoginWith(emails) ==
    \E e \in emails, p \in Passwords :
        LET out == login_user(users, [username |-> e, password |-> p], now)
        IN  /\ users' = out.db
            /\ bearer' = IF out.status = 200 THEN out.token ELSE bearer
            /\ resp' = Resp("login_user", now, NoToken, "", e, p, None,
                            None, out)
            /\ UNCHANGED <<now, tokVars, reqs>>

Login == LoginWith(Emails)

GetAllUsers ==
    \E t \in Presentable :
        LET cu == get_current_user(t, users, now)
            out == IF cu.id = None THEN Denied(users, cu)
                   ELSE Outcome(users, 200, "", NoUser, NoToken)
        IN  /\ users' = out.db
            /\ resp' = Resp("get_all_users", now, t, "", "", "", None,
                            cu.id, out)
            /\ UNCHANGED <<now, bearer, tokVars, reqs>>

GetUserById ==
    \E t \in Presentable, user_id \in UserIds :
        LET cu == get_current_user(t, users, now)
            out == IF cu.id = None THEN Denied(users, cu)
                   ELSE get_user_by_id(users, user_id)
        IN  /\ users' = out.db
            /\ resp' = Resp("get_user_by_id", now, t, "", "", "",
                            IF cu.id = None THEN None ELSE user_id,
                            cu.id, out)
            /\ UNCHANGED <<now, bearer, tokVars, reqs>>

GetMyProfile ==
    \E t \in Presentable :
        LET cu == get_current_user(t, users, now)
            out == IF cu.id = None THEN Denied(users, cu)
                   ELSE get_my_profile(users, cu.id)
        IN  /\ users' = out.db
            /\ resp' = Resp("get_my_profile", now, t, "", "", "", None,
                            cu.id, out)
            /\ UNCHANGED <<now, bearer, tokVars, reqs>>

UpdateMyProfileWith(emails) ==
    \E t \in Presentable, u \in Usernames \cup {""}, e \in emails \cup {""} :
        LET cu == get_current_user(t, users, now)
            out == IF cu.id = None THEN Denied(users, cu)
                   ELSE update_my_profile(users, cu.id,
                                          [username |-> u, email |-> e])
        IN  /\ users' = out.db
            /\ resp' = Resp("update_my_profile", now, t,
                            IF cu.id = None THEN "" ELSE u,
                            IF cu.id = None THEN "" ELSE e,
                            "", None, cu.id, out)
            /\ UNCHANGED <<now, bearer, tokVars, reqs>>

UpdateMyProfile == UpdateMyProfileWith(Emails)

Next ==
    \/ Register
    \/ Login
    \/ GetAllUsers
    \/ GetUserById
    \/ GetMyProfile
    \/ UpdateMyProfile
    \/ Elapse

Spec == Init /\ [][Next]_vars

\* ------------------------------------------------ account route claims
\* the password a bcrypt hash was made from
RegisteredPassword(h) == h.digest[2]
Holders(db, email) == {i \in Ids(db) : db[i].email = email}

\* C5: after any sequence of register_user and update_my_profile calls
\* from an empty table, no two user records have the same email.
UniqueEmails(db) == \A i, j \in Ids(db) : db[i].email = db[j].email => i = j

C5_UniqueEmails == UniqueEmails(users)

C5_Witness ==
    /\ Len(users) = 2
    /\ resp.op = "update_my_profile"
    /\ resp.status = 400
    /\ resp.detail = "Email already in use"

\* C7: login_user with an email no record holds, or with a password other
\* than the one registered for it, ends with 400 "Invalid email or
\* password" and no token; with a stored email and its registered
\* password it returns a token that verify_access_token at once resolves
\* to the id of the record holding that email.
C7_Login ==
    resp.op = "login_user" =>
        LET match == {i \in Holders(users, resp.email) :
                        RegisteredPassword(users[i].hashed_password)
                            = resp.password}
        IN  IF match = {}
            THEN /\ resp.status = 400
                 /\ resp.detail = "Invalid email or password"
                 /\ resp.issued = NoToken
            ELSE /\ resp.status = 200
                 /\ verify_access_token(resp.issued, resp.at).value \in match
                 /\ ~verify_access_token(resp.issued, resp.at).raised
                 /\ resp.body.id \in match

C7_Witness ==
    /\ resp.op = "login_user"
    /\ resp.status = 200
    /\ resp.body.id = 2
    /\ Len(users) = 2
    /\ users[1].hashed_password # users[2].hashed_password

\* C9: a protected operation runs its body only when verify_access_token
\* returned a subject that is the id of an existing record, and then acts
\* as that record; an invalid token ends the request with 401, a subject
\* with no record with 404 "User not found", and both leave the table
\* unchanged.
C9_State ==
    resp.op \in Protected =>
        LET r == verify_access_token(resp.token, resp.at)
        IN  /\ resp.actor # None =>
                  /\ ~r.raised
                  /\ r.value # None
                  /\ r.value \in Ids(users)
                  /\ resp.actor = r.value
                  /\ resp.op \in {"get_my_profile", "update_my_profile"}
                        /\ resp.status = 200 => resp.body.id = r.value
            /\ r.value = None =>
                  /\ resp.status = 401
                  /\ resp.detail = "Invalid or expired token"
                  /\ resp.actor = None
            /\ (r.value # None /\ r.value \notin Ids(users)) =>
                  /\ resp.status = 404
                  /\ resp.detail = "User not found"
                  /\ resp.actor = None

C9_Frame ==
    (resp'.op \in Protected /\ resp'.actor = None) => users' = users

C9_Protected == []C9_State /\ [][C9_Frame]_vars

C9_Witness ==
    /\ resp.op = "update_my_profile"
    /\ resp.status = 404
    /\ resp.actor = None
    /\ Len(users) = 2

\* ------------------------------------------------- two accounts, /me
\* Two registered accounts log in, read and update their profiles; the
\* emails sent are the two registered ones and one no account holds.
MoreEmails == Emails \cup {"c@x.com"}

ProfileInit ==
    /\ users = <<User(1, "alice", "a@x.com", hash_password("pw123", "s1")),
                 User(2, "bob", "b@x.com", hash_password("hunter2", "s1"))>>
    /\ now = 0
    /\ bearer = NoToken
    /\ resp = NoResp
    /\ tok = NoToken
    /\ origin = "none"
    /\ iat = None
    /\ ttl = None
    /\ sub = None
    /\ vres = NotVerified
    /\ vat = None
    /\ reqs = << >>

LoginAny == LoginWith(MoreEmails)
UpdateAny == UpdateMyProfileWith(MoreEmails)

ProfileNext == LoginAny \/ GetMyProfile \/ UpdateAny \/ Elapse

ProfileSpec == ProfileInit /\ [][ProfileNext]_vars

\* C10: update_my_profile with an email held by a different account ends
\* with 400 "Email already in use" and leaves every record as it was, the
\* caller's username included; with an email no other account holds it
\* succeeds, changes only the caller's record, and the caller's profile
\* fetched next shows the new email.
C10_Update ==
    (resp'.op = "update_my_profile" /\ resp'.actor # None) =>
        LET a == resp'.actor
            u == resp'.username
            e == resp'.email
        IN  IF \E i \in Ids(users) : i # a /\ users[i].email = e
            THEN /\ resp'.status = 400
                 /\ resp'.detail = "Email already in use"
                 /\ users' = users
            ELSE /\ resp'.status = 200
                 /\ Ids(users') = Ids(users)
                 /\ \A i \in Ids(users) : i # a => users'[i] = users[i]
                 /\ users'[a].id = a
                 /\ users'[a].hashed_password = users[a].hashed_password
                 /\ users'[a].email = IF e = "" THEN users[a].email ELSE e
                 /\ users'[a].username =
                        IF u = "" THEN users[a].username ELSE u

C10_Fetch ==
    (/\ resp.op = "update_my_profile"
     /\ resp.status = 200
     /\ resp.email # ""
     /\ resp'.op = "get_my_profile"
     /\ resp'.actor = resp.actor)
        => resp'.body.email = resp.email

C10_UpdateProfile == [][C10_Update /\ C10_Fetch]_vars

C10_Witness ==
    /\ resp.op = "update_my_profile"
    /\ resp.status = 400
    /\ resp.username # ""
    /\ resp.username # users[resp.actor].username
    /\ \E i \in Ids(users) : users[i].email = "c@x.com"

\* ================================================ malformed stored hash
\* login_user over a table whose one row holds any string a
\* hashed_password column can hold
StoredHashes ==
    {hash_password(p, salt) : p \in Passwords, salt \in Salts}
    \cup MalformedHashes \cup {NullHash}

HashInit ==
    /\ \E u \in Usernames, e \in Emails, h \in StoredHashes :
          users = <<User(1, u, e, h)>>
    /\ now = 0
    /\ bearer = NoToken
    /\ resp = NoResp
    /\ tok = NoToken
    /\ origin = "none"
    /\ iat = None
    /\ ttl = None
    /\ sub = None
    /\ vres = NotVerified
    /\ vat = None
    /\ reqs = << >>

HashNext == Login \/ Elapse

HashSpec == HashInit /\ [][HashNext]_vars

\* C8: login_user for a record whose hashed_password is not a well-formed
\* bcrypt hash ends with 400 "Invalid email or password", as a wrong
\* password does, and not with an unhandled fault.
C8_MalformedHashRejected ==
    (/\ resp.op = "login_user"
     /\ Holders(users, resp.email) # {}
     /\ \A i \in Holders(users, resp.email) :
            users[i].hashed_password \in MalformedHashes)
        => /\ resp.status = 400
           /\ resp.detail = "Invalid email or password"

\* ================================================== concurrent requests
\* MaxReqs requests in flight.  Each runs its lookup by email and, if that
\* found no conflict, later its db.commit(); other requests' steps fall in
\* between.  A request: its operation, where it stands, the caller's id
\* (None for register_user), the email it claims, its status.
Req(op, pc, uid, email, status) ==
    [op |-> op, pc |-> pc, uid |-> uid, email |-> email, status |-> status]

Idle == Req("", "idle", None, "", 0)
ReqIds == 1..MaxReqs

\* the users table's uniqueness constraint on email: a commit that would
\* give a second row this email is refused (IntegrityError)
UniqueViolation(db, id, email) ==
    \E i \in Ids(db) : i # id /\ db[i].email = email

\* a slip: the error of db.commit() is swallowed
AfterCommitSwallowed(refused) == 200

\* db.commit() is not guarded: an IntegrityError leaves the handler and
\* the request ends with 500
AfterCommit(refused) == IF refused THEN 500 ELSE 200

ConcInit ==
    /\ users = << >>
    /\ now = 0
    /\ bearer = NoToken
    /\ resp = NoResp
    /\ tok = NoToken
    /\ origin = "none"
    /\ iat = None
    /\ ttl = None
    /\ sub = None
    /\ vres = NotVerified
    /\ vat = None
    /\ reqs = [r \in ReqIds |-> Idle]

\* register_user up to its lookup
RegisterLookup(r) ==
    /\ reqs[r].pc = "idle"
    /\ \E e \in Emails :
          reqs' = [reqs EXCEPT ![r] =
                     IF EmailRegistered(users, e)
                     THEN Req("register_user", "done", None, e, 400)
                     ELSE Req("register_user", "checked", None, e, 0)]
    /\ UNCHANGED <<users, now, bearer, resp, tokVars>>

\* register_user from db.add to the response
RegisterCommit(r) ==
    /\ reqs[r].pc = "checked"
    /\ reqs[r].op = "register_user"
    /\ LET e == reqs[r].email
           refused == UniqueViolation(users, None, e)
           new_user == User(Len(users) + 1, "alice", e,
                            hash_password("pw123", "s1"))
       IN  /\ users' = IF refused THEN users ELSE Append(users, new_user)
           /\ reqs' = [reqs EXCEPT ![r] =
                         Req("register_user", "done", None, e,
                             AfterCommit(refused))]
    /\ UNCHANGED <<now, bearer, resp, tokVars>>

\* update_my_profile's email branch up to its lookup, for a caller whose
\* token named row a
UpdateLookup(r) ==
    /\ reqs[r].pc = "idle"
    /\ \E a \in Ids(users), e \in Emails :
          /\ e # users[a].email
          /\ reqs' = [reqs EXCEPT ![r] =
                        IF EmailInUse(users, a, e)
                        THEN Req("update_my_profile", "done", a, e, 400)
                        ELSE Req("update_my_profile", "checked", a, e, 0)]
    /\ UNCHANGED <<users, now, bearer, resp, tokVars>>

\* update_my_profile from db.add to the response
UpdateCommit(r) ==
    /\ reqs[r].pc = "checked"
    /\ reqs[r].op = "update_my_profile"
    /\ LET a == reqs[r].uid
           e == reqs[r].email
           refused == UniqueViolation(users, a, e)
       IN  /\ users' = IF refused THEN users
                       ELSE [users EXCEPT ![a].email = e]
           /\ reqs' = [reqs EXCEPT ![r] =
                         Req("update_my_profile", "done", a, e,
                             AfterCommit(refused))]
    /\ UNCHANGED <<now, bearer, resp, tokVars>>

\* the response is sent; the worker takes the next request
Reply(r) ==
    /\ reqs[r].pc = "done"
    /\ reqs' = [reqs EXCEPT ![r] = Idle]
    /\ UNCHANGED <<users, now, bearer, resp, tokVars>>

ConcNext ==
    \E r \in ReqIds :
        \/ RegisterLookup(r)
        \/ RegisterCommit(r)
        \/ UpdateLookup(r)
        \/ UpdateCommit(r)
        \/ Reply(r)

ConcSpec == ConcInit /\ [][ConcNext]_vars

\* C6: when requests claiming the same email run with their lookups and
\* writes interleaved, the table never holds two records with that email,
\* and a request succeeds in binding the email only if no other record
\* holds it at the moment of its write; so of the requests racing for a
\* free email at most one succeeds.
C6_Write ==
    \A r \in ReqIds :
        (reqs[r].pc = "checked" /\ reqs'[r].pc = "done"
            /\ reqs'[r].status = 200)
        => /\ ~UniqueViolation(users, reqs[r].uid, reqs[r].email)
           /\ \E i \in Ids(users') : users'[i].email = reqs[r].email

====
